---- MODULE Spec2Model ----
(***************************************************************************)
(* The PartitionTask lifecycle of daft/execution/execution_step.py: the    *)
(* PartitionTaskBuilder, the tasks it freezes, the results installed on    *)
(* them, the partial-metadata rule of every Instruction and the run of the *)
(* instructions that take a fixed number of inputs; and the loop of        *)
(* DynamicRunner.run of daft/runners/dynamic_runner.py.                    *)
(*                                                                         *)
(* A Python object that is shared by reference is modelled as a reference: *)
(* a task's `instructions` field holds the id of the builder whose list    *)
(* object it was given, and is read through TaskInstructions.              *)
(* An Optional value is the empty tuple (None) or a one-element tuple.     *)
(***************************************************************************)
EXTENDS Integers, Sequences, FiniteSets, TLC

\* ------------------------------------------------------------------ bounds

\* Tasks created in one run (the values ID_GEN hands out).
MaxTasks == 2
\* Constructions a schedule yields in one run.
MaxConstructions == 3
\* Instructions appended to one builder.
MaxInstructions == 2
\* Length of a list handed to set_result.
MaxResults == 2
\* Builders alive in one run.
NumBuilders == 2

\* Largest row count and size of a partial metadata handed to an instruction.
MaxRows == 2
\* Length of the metadata list, and of the table list, handed to an instruction.
MaxInputs == 2

Builders == 1..NumBuilders

\* ------------------------------------------------------------ Optional[T]

None == <<>>

Some(v) == <<v>>

Val(x) == x[1]

Min(a, b) == IF a <= b THEN a ELSE b

Max(a, b) == IF a >= b THEN a ELSE b

\* Python's `x or d` on an Optional number: None and 0 are falsy.
PyOr(x, d) == IF x = None \/ x = Some(0) THEN d ELSE x

\* ------------------------------------------------------- ResourceRequest

ResourceRequest(num_cpus, num_gpus, memory_bytes) ==
    [num_cpus |-> num_cpus, num_gpus |-> num_gpus, memory_bytes |-> memory_bytes]

\* ResourceRequest(): every field absent.
DefaultResourceRequest == ResourceRequest(None, None, None)

\* max_of on one field: absent is the identity.
MaxField(a, b) ==
    IF a = None THEN b
    ELSE IF b = None THEN a
    ELSE Some(Max(Val(a), Val(b)))

RECURSIVE max_resources_from(_, _)
max_resources_from(acc, resource_requests) ==
    IF resource_requests = <<>> THEN acc
    ELSE max_resources_from(
             ResourceRequest(MaxField(acc.num_cpus, Head(resource_requests).num_cpus),
                             MaxField(acc.num_gpus, Head(resource_requests).num_gpus),
                             MaxField(acc.memory_bytes, Head(resource_requests).memory_bytes)),
             Tail(resource_requests))

\* ResourceRequest.max_resources: the per-field maximum of a list of requests.
max_resources(resource_requests) ==
    max_resources_from(DefaultResourceRequest, resource_requests)

\* ---------------------------------------------- PartialPartitionMetadata

PartialPartitionMetadata(num_rows, size_bytes) ==
    [num_rows |-> num_rows, size_bytes |-> size_bytes]

\* ---------------------------------------------------------- Instructions

ReadFile(file_rows, limit_rows) ==
    [op |-> "ReadFile", file_rows |-> file_rows, limit_rows |-> limit_rows]

WriteFile == [op |-> "WriteFile"]

Filter == [op |-> "Filter"]

Project == [op |-> "Project"]

LocalCount == [op |-> "LocalCount"]

LocalLimit(limit) == [op |-> "LocalLimit", limit |-> limit]

Slice(start, end) == [op |-> "Slice", start |-> start, end |-> end]

MapPartition == [op |-> "MapPartition"]

Sample == [op |-> "Sample"]

Aggregate == [op |-> "Aggregate"]

Join == [op |-> "Join"]

ReduceMerge == [op |-> "ReduceMerge"]

ReduceMergeAndSort == [op |-> "ReduceMergeAndSort"]

ReduceToQuantiles(num_quantiles) ==
    [op |-> "ReduceToQuantiles", num_quantiles |-> num_quantiles]

FanoutRandom(num_outputs) == [op |-> "FanoutRandom", num_outputs |-> num_outputs]

FanoutHash(num_outputs) == [op |-> "FanoutHash", num_outputs |-> num_outputs]

FanoutRange(num_outputs) == [op |-> "FanoutRange", num_outputs |-> num_outputs]

\* The outcome of a call: the exception raised ("" when it returned) and
\* the value returned.
Returned(out) == [err |-> "", out |-> out]

Raised(err) == [err |-> err, out |-> <<>>]

Unknown == PartialPartitionMetadata(None, None)

\* [Unknown for _ in input_metadatas]
UnknownForEach(input_metadatas) ==
    [i \in 1..Len(input_metadatas) |-> Unknown]

ReadFile_run_partial_metadata(self, input_metadatas) ==
    IF Len(input_metadatas) # 1 THEN Raised("AssertionError")
    ELSE LET num_rows ==
                 IF self.file_rows # None /\ self.limit_rows # None
                 THEN Some(Min(Val(self.file_rows), Val(self.limit_rows)))
                 ELSE self.file_rows
         IN Returned(<<PartialPartitionMetadata(num_rows, None)>>)

WriteFile_run_partial_metadata(self, input_metadatas) ==
    IF Len(input_metadatas) # 1 THEN Raised("AssertionError")
    ELSE Returned(<<PartialPartitionMetadata(Some(1), None)>>)

\* A Filter that reports an empty output whatever it is given.
Filter_run_partial_metadata_empty(self, input_metadatas) ==
    Returned([i \in 1..Len(input_metadatas) |->
                 PartialPartitionMetadata(Some(0), None)])

Filter_run_partial_metadata(self, input_metadatas) ==
    Returned(UnknownForEach(input_metadatas))

Project_run_partial_metadata(self, input_metadatas) ==
    Returned([i \in 1..Len(input_metadatas) |->
                 PartialPartitionMetadata(input_metadatas[i].num_rows, None)])

\* LocalCount's size_bytes, "an empirical value".
LocalCountSizeBytes == 104

LocalCount_run_partial_metadata(self, input_metadatas) ==
    Returned([i \in 1..Len(input_metadatas) |->
                 PartialPartitionMetadata(Some(1), Some(LocalCountSizeBytes))])

\* A LocalLimit that reports its limit without looking at the input rows.
LocalLimit_run_partial_metadata_unclamped(self, input_metadatas) ==
    Returned([i \in 1..Len(input_metadatas) |->
                 PartialPartitionMetadata(
                     IF input_metadatas[i].num_rows # None
                     THEN Some(self.limit) ELSE None,
                     None)])

LocalLimit_run_partial_metadata(self, input_metadatas) ==
    Returned([i \in 1..Len(input_metadatas) |->
                 PartialPartitionMetadata(
                     IF input_metadatas[i].num_rows # None
                     THEN Some(Min(self.limit, Val(input_metadatas[i].num_rows)))
                     ELSE None,
                     None)])

Slice_run_partial_metadata(self, input_metadatas) ==
    IF Len(input_metadatas) # 1 THEN Raised("ValueError")
    ELSE LET input_meta == input_metadatas[1]
             definite_end ==
                 IF input_meta.num_rows # None
                 THEN Some(Min(self.end, Val(input_meta.num_rows)))
                 ELSE None
         IN IF ~(self.start >= 0) THEN Raised("AssertionError")
            ELSE Returned(<<PartialPartitionMetadata(
                     IF definite_end # None
                     THEN Some(Max(Val(definite_end) - self.start, 0))
                     ELSE None,
                     None)>>)

MapPartition_run_partial_metadata(self, input_metadatas) ==
    Returned(UnknownForEach(input_metadatas))

Sample_run_partial_metadata(self, input_metadatas) ==
    Returned(UnknownForEach(input_metadatas))

Aggregate_run_partial_metadata(self, input_metadatas) ==
    Returned(UnknownForEach(input_metadatas))

Join_run_partial_metadata(self, input_metadatas) ==
    Returned(<<Unknown>>)

\* all(_ is not None for _ in xs), xs the values of `field`
AllKnown(input_metadatas, field) ==
    \A i \in 1..Len(input_metadatas) : input_metadatas[i][field] # None

RECURSIVE SumField(_, _)
\* sum(xs), xs the values of `field` (0 for the empty list)
SumField(input_metadatas, field) ==
    IF input_metadatas = <<>> THEN 0
    ELSE Val(Head(input_metadatas)[field]) + SumField(Tail(input_metadatas), field)

\* A ReduceMerge whose size is known only when the rows are known too.
ReduceMerge_run_partial_metadata_coupled(self, input_metadatas) ==
    Returned(<<PartialPartitionMetadata(
        IF AllKnown(input_metadatas, "num_rows")
        THEN Some(SumField(input_metadatas, "num_rows")) ELSE None,
        IF AllKnown(input_metadatas, "size_bytes") /\ AllKnown(input_metadatas, "num_rows")
        THEN Some(SumField(input_metadatas, "size_bytes")) ELSE None)>>)

ReduceMerge_run_partial_metadata(self, input_metadatas) ==
    Returned(<<PartialPartitionMetadata(
        IF AllKnown(input_metadatas, "num_rows")
        THEN Some(SumField(input_metadatas, "num_rows")) ELSE None,
        IF AllKnown(input_metadatas, "size_bytes")
        THEN Some(SumField(input_metadatas, "size_bytes")) ELSE None)>>)

ReduceMergeAndSort_run_partial_metadata(self, input_metadatas) ==
    Returned(<<PartialPartitionMetadata(
        IF AllKnown(input_metadatas, "num_rows")
        THEN Some(SumField(input_metadatas, "num_rows")) ELSE None,
        IF AllKnown(input_metadatas, "size_bytes")
        THEN Some(SumField(input_metadatas, "size_bytes")) ELSE None)>>)

\* A ReduceToQuantiles that reports its quantiles only when it has inputs.
ReduceToQuantiles_run_partial_metadata_per_input(self, input_metadatas) ==
    Returned(<<PartialPartitionMetadata(
        IF input_metadatas # <<>> THEN Some(self.num_quantiles) ELSE None,
        None)>>)

ReduceToQuantiles_run_partial_metadata(self, input_metadatas) ==
    Returned(<<PartialPartitionMetadata(Some(self.num_quantiles), None)>>)

\* A fanout that reports one entry per input instead of one per output.
FanoutInstruction_run_partial_metadata_per_input(self, input_metadatas) ==
    Returned(UnknownForEach(input_metadatas))

\* for _ in range(self.num_outputs): nothing when num_outputs <= 0
FanoutInstruction_run_partial_metadata(self, input_metadatas) ==
    Returned([i \in 1..self.num_outputs |-> Unknown])

\* Dynamic dispatch of instruction.run_partial_metadata(input_metadatas).
run_partial_metadata(instruction, input_metadatas) ==
    CASE instruction.op = "ReadFile" -> ReadFile_run_partial_metadata(instruction, input_metadatas)
      [] instruction.op = "WriteFile" -> WriteFile_run_partial_metadata(instruction, input_metadatas)
      [] instruction.op = "Filter" -> Filter_run_partial_metadata(instruction, input_metadatas)
      [] instruction.op = "Project" -> Project_run_partial_metadata(instruction, input_metadatas)
      [] instruction.op = "LocalCount" -> LocalCount_run_partial_metadata(instruction, input_metadatas)
      [] instruction.op = "LocalLimit" -> LocalLimit_run_partial_metadata(instruction, input_metadatas)
      [] instruction.op = "Slice" -> Slice_run_partial_metadata(instruction, input_metadatas)
      [] instruction.op = "MapPartition" -> MapPartition_run_partial_metadata(instruction, input_metadatas)
      [] instruction.op = "Sample" -> Sample_run_partial_metadata(instruction, input_metadatas)
      [] instruction.op = "Aggregate" -> Aggregate_run_partial_metadata(instruction, input_metadatas)
      [] instruction.op = "Join" -> Join_run_partial_metadata(instruction, input_metadatas)
      [] instruction.op = "ReduceMerge" -> ReduceMerge_run_partial_metadata(instruction, input_metadatas)
      [] instruction.op = "ReduceMergeAndSort" -> ReduceMergeAndSort_run_partial_metadata(instruction, input_metadatas)
      [] instruction.op = "ReduceToQuantiles" -> ReduceToQuantiles_run_partial_metadata(instruction, input_metadatas)
      [] instruction.op \in {"FanoutRandom", "FanoutHash", "FanoutRange"} ->
             FanoutInstruction_run_partial_metadata(instruction, input_metadatas)

\* ------------------------------------------------------- Instruction.run

\* A Table whose rows are known, in order.
Table(rows) == [rows |-> rows]

\* The Table an operation returns whose rows depend on a payload (a
\* predicate, a projection, a plan, a seed) the instruction carries: the
\* operation applied to its arguments, uninterpreted.
TableOf(fn, args) == [fn |-> fn, args |-> args]

\* len(table)
Table_len(table) == Len(table.rows)

\* table.head(n)
Table_head(table, n) == Table(SubSeq(table.rows, 1, Min(Max(n, 0), Table_len(table))))

\* np.arange(start, stop): start, start + 1, ..., stop - 1; empty when stop <= start
np_arange(start, stop) == [i \in 1..(stop - start) |-> start + i - 1]

\* table.take(indices): the rows at the (0-based) indices, in the order given
Table_take(table, indices) ==
    Table([i \in 1..Len(indices) |-> table.rows[indices[i] + 1]])

\* Table.from_pydict({"count": [n]})
Table_from_pydict_count(n) == Table(<<n>>)

\* table.partition_by_random(num_partitions, seed) and
\* table.partition_by_hash(partition_by, num_partitions)
Table_partition_by(fn, table, num_partitions) ==
    [i \in 1..num_partitions |-> TableOf(fn, <<table, i>>)]

\* table.partition_by_range(sort_by, boundaries, descending): one partition
\* more than the boundaries table has rows.
Table_partition_by_range(table, boundaries) ==
    [i \in 1..(Table_len(boundaries) + 1) |->
        TableOf("partition_by_range", <<table, boundaries, i>>)]

\* assert len(inputs) == 1, then [filepaths_partition] = inputs
ReadFile_run(self, inputs) ==
    IF Len(inputs) # 1 THEN Raised("AssertionError")
    ELSE Returned(<<TableOf("_handle_tabular_files_scan", <<inputs[1]>>)>>)

WriteFile_run(self, inputs) ==
    IF Len(inputs) # 1 THEN Raised("ValueError")
    ELSE Returned(<<TableOf("_handle_file_write", <<inputs[1]>>)>>)

\* A Filter that filters its first input and ignores the others.
Filter_run_first_input(self, inputs) ==
    IF inputs = <<>> THEN Raised("ValueError")
    ELSE Returned(<<TableOf("filter", <<inputs[1]>>)>>)

\* [input] = inputs raises ValueError unless there is exactly one input.
Filter_run(self, inputs) ==
    IF Len(inputs) # 1 THEN Raised("ValueError")
    ELSE Returned(<<TableOf("filter", <<inputs[1]>>)>>)

Project_run(self, inputs) ==
    IF Len(inputs) # 1 THEN Raised("ValueError")
    ELSE Returned(<<TableOf("eval_expression_list", <<inputs[1]>>)>>)

\* The schema assertion compares the count table with the plan's schema,
\* which a LocalCount plan has.
LocalCount_run(self, inputs) ==
    IF Len(inputs) # 1 THEN Raised("ValueError")
    ELSE Returned(<<Table_from_pydict_count(Table_len(inputs[1]))>>)

LocalLimit_run(self, inputs) ==
    IF Len(inputs) # 1 THEN Raised("ValueError")
    ELSE Returned(<<Table_head(inputs[1], self.limit)>>)

\* A Slice that takes from the first row on.
Slice_run_from_first_row(self, inputs) ==
    IF Len(inputs) # 1 THEN Raised("ValueError")
    ELSE IF ~(self.start >= 0) THEN Raised("AssertionError")
    ELSE Returned(<<Table_take(inputs[1],
                        np_arange(0, Min(self.end, Table_len(inputs[1]))))>>)

Slice_run(self, inputs) ==
    IF Len(inputs) # 1 THEN Raised("ValueError")
    ELSE LET input == inputs[1]
             end == Min(self.end, Table_len(input))
             indices_series == np_arange(self.start, end)
         IN IF ~(self.start >= 0) THEN Raised("AssertionError")
            ELSE Returned(<<Table_take(input, indices_series)>>)

MapPartition_run(self, inputs) ==
    IF Len(inputs) # 1 THEN Raised("ValueError")
    ELSE Returned(<<TableOf("map_op.run", <<inputs[1]>>)>>)

Sample_run(self, inputs) ==
    IF Len(inputs) # 1 THEN Raised("ValueError")
    ELSE Returned(<<TableOf("sample", <<inputs[1]>>)>>)

Aggregate_run(self, inputs) ==
    IF Len(inputs) # 1 THEN Raised("ValueError")
    ELSE Returned(<<TableOf("agg", <<inputs[1]>>)>>)

\* [left, right] = inputs
Join_run(self, inputs) ==
    IF Len(inputs) # 2 THEN Raised("ValueError")
    ELSE Returned(<<TableOf("join", <<inputs[1], inputs[2]>>)>>)

FanoutRandom_run(self, inputs) ==
    IF Len(inputs) # 1 THEN Raised("ValueError")
    ELSE Returned(Table_partition_by("partition_by_random", inputs[1], self.num_outputs))

FanoutHash_run(self, inputs) ==
    IF Len(inputs) # 1 THEN Raised("ValueError")
    ELSE Returned(Table_partition_by("partition_by_hash", inputs[1], self.num_outputs))

\* A FanoutRange without the shortcut for a single output.
FanoutRange_run_always_partitioned(self, inputs) ==
    IF Len(inputs) # 2 THEN Raised("ValueError")
    ELSE Returned(Table_partition_by_range(inputs[2], inputs[1]))

\* [boundaries, input] = inputs; num_outputs is read for the shortcut only.
FanoutRange_run(self, inputs) ==
    IF Len(inputs) # 2 THEN Raised("ValueError")
    ELSE LET boundaries == inputs[1]
             input == inputs[2]
         IN IF self.num_outputs = 1 THEN Returned(<<input>>)
            ELSE Returned(Table_partition_by_range(input, boundaries))

RECURSIVE Table_concat(_)
\* Table.concat(tables): the rows of the tables, one table after the other
Table_concat(tables) ==
    IF tables = <<>> THEN Table(<<>>)
    ELSE Table(Head(tables).rows \o Table_concat(Tail(tables)).rows)

RECURSIVE SortedRows(_)
\* The rows in ascending order; a row is its own sort key, and equal keys
\* keep their order.
SortedRows(rows) ==
    IF rows = <<>> THEN <<>>
    ELSE LET sorted == SortedRows(SubSeq(rows, 1, Len(rows) - 1))
             x == rows[Len(rows)]
             before == SelectSeq(sorted, LAMBDA y : y <= x)
             after == SelectSeq(sorted, LAMBDA y : y > x)
         IN before \o <<x>> \o after

\* table.sort(sort_by, descending)
Table_sort(table) == Table(SortedRows(table.rows))

\* table.quantiles(num): the num - 1 rows that cut the table into num parts
\* of equal size; a table without rows has none to give.
Table_quantiles(table, num) ==
    IF Table_len(table) = 0 THEN table
    ELSE Table_take(table,
             [i \in 1..(num - 1) |-> (i * Table_len(table)) \div num])

\* The number of rows of a table an operation returned, when the operation
\* fixes it: a projection (eval_expression_list) keeps the rows of its input.
Table_num_rows(table) ==
    IF "rows" \in DOMAIN table THEN Some(Len(table.rows))
    ELSE IF table.fn = "eval_expression_list"
         THEN Some(Len(table.args[1].rows))
         ELSE None

ReduceMerge_run(self, inputs) ==
    Returned(<<Table_concat(inputs)>>)

ReduceMergeAndSort_run(self, inputs) ==
    Returned(<<Table_sort(Table_concat(inputs))>>)

ReduceToQuantiles_run(self, inputs) ==
    LET merged == Table_concat(inputs)
        merged_sorted == Table_sort(merged)
    IN Returned(<<Table_quantiles(merged_sorted, self.num_quantiles)>>)

\* The instructions that run on a fixed number of inputs.
FixedArityOps ==
    {"ReadFile", "WriteFile", "Filter", "Project", "LocalCount", "LocalLimit",
     "Slice", "MapPartition", "Sample", "Aggregate", "Join",
     "FanoutRandom", "FanoutHash", "FanoutRange"}

\* Dynamic dispatch of instruction.run(inputs).
run(instruction, inputs) ==
    CASE instruction.op = "ReadFile" -> ReadFile_run(instruction, inputs)
      [] instruction.op = "WriteFile" -> WriteFile_run(instruction, inputs)
      [] instruction.op = "Filter" -> Filter_run(instruction, inputs)
      [] instruction.op = "Project" -> Project_run(instruction, inputs)
      [] instruction.op = "LocalCount" -> LocalCount_run(instruction, inputs)
      [] instruction.op = "LocalLimit" -> LocalLimit_run(instruction, inputs)
      [] instruction.op = "Slice" -> Slice_run(instruction, inputs)
      [] instruction.op = "MapPartition" -> MapPartition_run(instruction, inputs)
      [] instruction.op = "Sample" -> Sample_run(instruction, inputs)
      [] instruction.op = "Aggregate" -> Aggregate_run(instruction, inputs)
      [] instruction.op = "Join" -> Join_run(instruction, inputs)
      [] instruction.op = "FanoutRandom" -> FanoutRandom_run(instruction, inputs)
      [] instruction.op = "FanoutHash" -> FanoutHash_run(instruction, inputs)
      [] instruction.op = "FanoutRange" -> FanoutRange_run(instruction, inputs)
      [] instruction.op = "ReduceMerge" -> ReduceMerge_run(instruction, inputs)
      [] instruction.op = "ReduceMergeAndSort" -> ReduceMergeAndSort_run(instruction, inputs)
      [] instruction.op = "ReduceToQuantiles" -> ReduceToQuantiles_run(instruction, inputs)

\* ------------------------------------------------------------------- state

VARIABLES
    ID_GEN,     \* the next value of itertools.count()
    builder,    \* the PartitionTaskBuilder objects, by builder id
    tasks,      \* the PartitionTask objects, in order of creation
    last,       \* the last call: its name, target, argument and outcome
    history,    \* per builder: the constructor's arguments and every add_instruction call
    finalized,  \* per task: the builder's state when the task was created
    runner,     \* DynamicRunner.run: its position, the schedule's yields and the cache
    schedule    \* the schedule of a sort: the Constructions it emitted and their results

vars == <<ID_GEN, builder, tasks, last, history, finalized, runner, schedule>>

Call(op, target, arg, outcome) ==
    [op |-> op, target |-> target, arg |-> arg, err |-> outcome.err, out |-> outcome.out]

\* A DynamicRunner whose run has not been called.
\*   pc                the statement run() is at
\*   next_construction the value the schedule yielded last, None for none
\*   results           what the runnable returned, before it is reported
\*   yielded           the Constructions the schedule yielded, in order
\*   ran               the (Construction, inputs) each runnable was called on
\*   completed         the report_completed calls, in order
\*   cache             the partition sets put into the partition cache
\*   err               the exception run() raised, "" for none
RunnerIdle ==
    [pc |-> "idle", next_construction |-> None, results |-> None,
     yielded |-> <<>>, ran |-> <<>>, completed |-> <<>>, cache |-> <<>>, err |-> ""]

\* No schedule yet.
\*   num_inputs   the partitions of the node the schedule sorts
\*   num_outputs  the partitions the sort produces (the keys of its fan-out)
\*   emitted      the Constructions emitted, in order
\*   completed    for each of them, None or the results reported completed
NoSchedule ==
    [num_inputs |-> 0, num_outputs |-> 0, emitted |-> <<>>, completed |-> <<>>]

Init ==
    /\ schedule = NoSchedule
    /\ runner = RunnerIdle
    /\ ID_GEN = 0
    /\ builder = <<>>
    /\ tasks = <<>>
    /\ last = Call("", 0, <<>>, Returned(<<>>))
    /\ history = <<>>
    /\ finalized = <<>>

\* ---------------------------------------------------- PartitionTaskBuilder

\* PartitionTaskBuilder(inputs, partial_metadatas, resource_request);
\* partial_metadatas is an Optional list.
PartitionTaskBuilder_init(b, inputs, partial_metadatas, resource_request) ==
    /\ b \notin DOMAIN builder
    /\ builder' = builder @@ (b :>
           [inputs |-> inputs,
            partial_metadatas |->
                IF partial_metadatas # None THEN Val(partial_metadatas)
                ELSE [i \in 1..Len(inputs) |-> PartialPartitionMetadata(None, None)],
            resource_request |-> resource_request,
            instructions |-> <<>>])
    /\ history' = history @@ (b :>
           [partial_metadatas |-> partial_metadatas,
            resource_request |-> resource_request,
            calls |-> <<>>])
    /\ last' = Call("PartitionTaskBuilder", b, <<>>, Returned(<<>>))
    /\ UNCHANGED <<schedule, runner, ID_GEN, tasks, finalized>>

\* add_instruction that leaves the metadata as it was.
PropagateMetadatas_skipped(instruction, partial_metadatas) ==
    Returned(partial_metadatas)

\* instruction.run_partial_metadata(self.partial_metadatas)
PropagateMetadatas(instruction, partial_metadatas) ==
    run_partial_metadata(instruction, partial_metadatas)

\* self.instructions.append(instruction)
AppendInstruction(instructions, instruction) == Append(instructions, instruction)

\* add_instruction that keeps the latest request instead of the maximum.
RollResourceRequest_latest(current, resource_request) == resource_request

\* ResourceRequest.max_resources([self.resource_request, resource_request])
RollResourceRequest(current, resource_request) ==
    max_resources(<<current, resource_request>>)

\* The append comes first: when run_partial_metadata raises, the instruction
\* is already in the list, and the metadata and the request are not replaced.
add_instruction(b, instruction, resource_request) ==
    /\ b \in DOMAIN builder
    /\ Len(builder[b].instructions) < MaxInstructions
    /\ LET self == builder[b]
           propagated == PropagateMetadatas(instruction, self.partial_metadatas)
       IN /\ builder' = [builder EXCEPT ![b] =
                  [inputs |-> self.inputs,
                   instructions |-> AppendInstruction(self.instructions, instruction),
                   partial_metadatas |->
                       IF propagated.err = "" THEN propagated.out
                       ELSE self.partial_metadatas,
                   resource_request |->
                       IF propagated.err = ""
                       THEN RollResourceRequest(self.resource_request, resource_request)
                       ELSE self.resource_request]]
          /\ history' = [history EXCEPT ![b].calls = Append(@,
                  [instruction |-> instruction,
                   resource_request |-> resource_request,
                   err |-> propagated.err])]
          /\ last' = Call("add_instruction", b, <<instruction>>,
                          IF propagated.err = "" THEN Returned(<<>>)
                          ELSE Raised(propagated.err))
    /\ UNCHANGED <<schedule, runner, ID_GEN, tasks, finalized>>

\* A counter that is read and never advanced.
NextId_not_advanced(counter) == [id |-> counter, counter |-> counter]

\* next(ID_GEN): the value handed out, and the counter after it.
NextId(counter) == [id |-> counter, counter |-> counter + 1]

\* The list object a new task is given as its `instructions`: the
\* builder's own list (self.instructions), by reference.
TaskInstructionsRef(b) == b

\* memory_bytes of a single-output task: `self.resource_request.memory_bytes or None`
SingleOutputMemoryBytes(memory_bytes) == PyOr(memory_bytes, None)

\* The single-output coercion, copied to the multi-output finalize.
MultiOutputMemoryBytes_coerced(memory_bytes) == PyOr(memory_bytes, None)

\* memory_bytes of a multi-output task: copied
MultiOutputMemoryBytes(memory_bytes) == memory_bytes

\* num_cpus of a task: `self.resource_request.num_cpus or 1`
FinalNumCpus(num_cpus) == PyOr(num_cpus, Some(1))

\* A new task that starts with what the task created before it holds.
InitialResult_inherited(earlier) ==
    IF earlier = <<>> THEN None
    ELSE IF "result" \in DOMAIN earlier[Len(earlier)]
         THEN earlier[Len(earlier)].result
         ELSE earlier[Len(earlier)].results

\* The dataclass default of _result and of _results: None, whatever tasks
\* were created earlier.
InitialResult(earlier) == None

Snapshot(b, num_results) ==
    [builder |-> b,
     num_results |-> num_results,
     instructions |-> builder[b].instructions,
     resource_request |-> builder[b].resource_request]

finalize_partition_task_single_output(b) ==
    /\ b \in DOMAIN builder
    /\ Len(tasks) < MaxTasks
    /\ LET self == builder[b]
           resource_request_final_cpu ==
               ResourceRequest(FinalNumCpus(self.resource_request.num_cpus),
                               self.resource_request.num_gpus,
                               SingleOutputMemoryBytes(self.resource_request.memory_bytes))
           next == NextId(ID_GEN)
       IN /\ tasks' = Append(tasks,
                  [cls |-> "SingleOutputPartitionTask",
                   inputs |-> self.inputs,
                   instructions |-> TaskInstructionsRef(b),
                   num_results |-> 1,
                   resource_request |-> resource_request_final_cpu,
                   id |-> next.id,
                   result |-> InitialResult(tasks)])
          /\ ID_GEN' = next.counter
    /\ finalized' = Append(finalized, Snapshot(b, None))
    /\ last' = Call("finalize_partition_task_single_output", b, <<>>,
                    Returned(<<Len(tasks) + 1>>))
    /\ UNCHANGED <<schedule, runner, builder, history>>

finalize_partition_task_multi_output(b, num_results) ==
    /\ b \in DOMAIN builder
    /\ Len(tasks) < MaxTasks
    /\ LET self == builder[b]
           resource_request_final_cpu ==
               ResourceRequest(FinalNumCpus(self.resource_request.num_cpus),
                               self.resource_request.num_gpus,
                               MultiOutputMemoryBytes(self.resource_request.memory_bytes))
           next == NextId(ID_GEN)
       IN /\ tasks' = Append(tasks,
                  [cls |-> "MultiOutputPartitionTask",
                   inputs |-> self.inputs,
                   instructions |-> TaskInstructionsRef(b),
                   num_results |-> num_results,
                   resource_request |-> resource_request_final_cpu,
                   id |-> next.id,
                   results |-> InitialResult(tasks)])
          /\ ID_GEN' = next.counter
    /\ finalized' = Append(finalized, Snapshot(b, Some(num_results)))
    /\ last' = Call("finalize_partition_task_multi_output", b, <<num_results>>,
                    Returned(<<Len(tasks) + 1>>))
    /\ UNCHANGED <<schedule, runner, builder, history>>

\* task.instructions, read through the reference the task holds.
TaskInstructions(t) == builder[tasks[t].instructions].instructions

IsSingle(t) == t \in 1..Len(tasks) /\ tasks[t].cls = "SingleOutputPartitionTask"

IsMulti(t) == t \in 1..Len(tasks) /\ tasks[t].cls = "MultiOutputPartitionTask"

\* ------------------------------------------------------ MaterializedResult

\* The MaterializedResult objects an executor hands to set_result.
MaterializedResults == {"r1", "r2"}

\* A MaterializedResult is a protocol: what partition(), metadata() and
\* vpartition() return is the executor's business, and is kept as a term
\* over the method and the result.
MaterializedResult_call(method, r) == <<method, r>>

\* ------------------------------------------------ SingleOutputPartitionTask

\* set_result without the assertion: a second result replaces the first.
SingleOutput_set_result_overwriting(self, result) ==
    IF Len(result) # 1 THEN Raised("ValueError") ELSE Returned(<<>>)

\* set_result that takes the first element of any non-empty list.
SingleOutput_set_result_first_element(self, result) ==
    IF self.result # None THEN Raised("AssertionError")
    ELSE IF Len(result) = 0 THEN Raised("IndexError")
    ELSE Returned(<<>>)

\* `assert self._result is None`, then `[partition] = result`
SingleOutput_set_result_outcome(self, result) ==
    IF self.result # None THEN Raised("AssertionError")
    ELSE IF Len(result) # 1 THEN Raised("ValueError")
    ELSE Returned(<<>>)

SingleOutputPartitionTask_set_result(t, result) ==
    /\ IsSingle(t)
    /\ LET outcome == SingleOutput_set_result_outcome(tasks[t], result)
       IN /\ tasks' = IF outcome.err = ""
                      THEN [tasks EXCEPT ![t].result = Some(result[1])]
                      ELSE tasks
          /\ last' = Call("set_result", t, result, outcome)
    /\ UNCHANGED <<schedule, runner, ID_GEN, builder, history, finalized>>

\* done(): self._result is not None
SingleOutput_done(self) == self.result # None

SingleOutputPartitionTask_done(t) ==
    /\ IsSingle(t)
    /\ last' = Call("done", t, <<>>, Returned(<<SingleOutput_done(tasks[t])>>))
    /\ UNCHANGED <<schedule, runner, ID_GEN, builder, tasks, history, finalized>>

\* The cancel() calls that cancel() makes, in order.
SingleOutput_cancel_forwarded(self) ==
    IF self.result # None THEN <<Val(self.result)>> ELSE <<>>

\* The `out` of a cancel call is the list of results whose cancel() it called.
SingleOutputPartitionTask_cancel(t) ==
    /\ IsSingle(t)
    /\ last' = Call("cancel", t, <<>>, Returned(SingleOutput_cancel_forwarded(tasks[t])))
    /\ UNCHANGED <<schedule, runner, ID_GEN, builder, tasks, history, finalized>>

\* A read accessor without the assertion: a pending task answers None.
SingleOutput_read_unchecked(self, method) ==
    IF self.result = None THEN Returned(<<None>>)
    ELSE Returned(<<MaterializedResult_call(method, Val(self.result))>>)

\* `assert self._result is not None`, then `return self._result.<method>()`
SingleOutput_read(self, method) ==
    IF self.result = None THEN Raised("AssertionError")
    ELSE Returned(<<MaterializedResult_call(method, Val(self.result))>>)

SingleOutputPartitionTask_partition(t) ==
    /\ IsSingle(t)
    /\ last' = Call("partition", t, <<>>, SingleOutput_read(tasks[t], "partition"))
    /\ UNCHANGED <<schedule, runner, ID_GEN, builder, tasks, history, finalized>>

SingleOutputPartitionTask_partition_metadata(t) ==
    /\ IsSingle(t)
    /\ last' = Call("partition_metadata", t, <<>>, SingleOutput_read(tasks[t], "metadata"))
    /\ UNCHANGED <<schedule, runner, ID_GEN, builder, tasks, history, finalized>>

SingleOutputPartitionTask_vpartition(t) ==
    /\ IsSingle(t)
    /\ last' = Call("vpartition", t, <<>>, SingleOutput_read(tasks[t], "vpartition"))
    /\ UNCHANGED <<schedule, runner, ID_GEN, builder, tasks, history, finalized>>

\* ------------------------------------------------- MultiOutputPartitionTask

\* set_result that compares the list with num_results.
MultiOutput_set_result_length_checked(self, result) ==
    IF self.results # None THEN Raised("AssertionError")
    ELSE IF Len(result) # self.num_results THEN Raised("ValueError")
    ELSE Returned(<<>>)

\* `assert self._results is None`; the list is stored as it is given
MultiOutput_set_result_outcome(self, result) ==
    IF self.results # None THEN Raised("AssertionError")
    ELSE Returned(<<>>)

MultiOutputPartitionTask_set_result(t, result) ==
    /\ IsMulti(t)
    /\ LET outcome == MultiOutput_set_result_outcome(tasks[t], result)
       IN /\ tasks' = IF outcome.err = ""
                      THEN [tasks EXCEPT ![t].results = Some(result)]
                      ELSE tasks
          /\ last' = Call("set_result", t, result, outcome)
    /\ UNCHANGED <<schedule, runner, ID_GEN, builder, history, finalized>>

\* done(): self._results is not None
MultiOutput_done(self) == self.results # None

MultiOutputPartitionTask_done(t) ==
    /\ IsMulti(t)
    /\ last' = Call("done", t, <<>>, Returned(<<MultiOutput_done(tasks[t])>>))
    /\ UNCHANGED <<schedule, runner, ID_GEN, builder, tasks, history, finalized>>

\* cancel() that stops after the first result.
MultiOutput_cancel_first_only(self) ==
    IF self.results # None /\ Val(self.results) # <<>>
    THEN <<Val(self.results)[1]>> ELSE <<>>

\* for result in self._results: result.cancel()
MultiOutput_cancel_forwarded(self) ==
    IF self.results # None THEN Val(self.results) ELSE <<>>

MultiOutputPartitionTask_cancel(t) ==
    /\ IsMulti(t)
    /\ last' = Call("cancel", t, <<>>, Returned(MultiOutput_cancel_forwarded(tasks[t])))
    /\ UNCHANGED <<schedule, runner, ID_GEN, builder, tasks, history, finalized>>

\* `assert self._results is not None`, then
\* `return [result.<method>() for result in self._results]`
MultiOutput_read(self, method) ==
    IF self.results = None THEN Raised("AssertionError")
    ELSE Returned(<<[i \in 1..Len(Val(self.results)) |->
                       MaterializedResult_call(method, Val(self.results)[i])]>>)

MultiOutputPartitionTask_partitions(t) ==
    /\ IsMulti(t)
    /\ last' = Call("partitions", t, <<>>, MultiOutput_read(tasks[t], "partition"))
    /\ UNCHANGED <<schedule, runner, ID_GEN, builder, tasks, history, finalized>>

MultiOutputPartitionTask_partition_metadatas(t) ==
    /\ IsMulti(t)
    /\ last' = Call("partition_metadatas", t, <<>>, MultiOutput_read(tasks[t], "metadata"))
    /\ UNCHANGED <<schedule, runner, ID_GEN, builder, tasks, history, finalized>>

\* `assert self._results is not None`, then
\* `return self._results[index].vpartition()`; index >= 0, counted from 0
MultiOutput_vpartition(self, index) ==
    IF self.results = None THEN Raised("AssertionError")
    ELSE IF index >= Len(Val(self.results)) THEN Raised("IndexError")
    ELSE Returned(<<MaterializedResult_call("vpartition", Val(self.results)[index + 1])>>)

MultiOutputPartitionTask_vpartition(t, index) ==
    /\ IsMulti(t)
    /\ last' = Call("vpartition", t, <<index>>, MultiOutput_vpartition(tasks[t], index))
    /\ UNCHANGED <<schedule, runner, ID_GEN, builder, tasks, history, finalized>>

\* done() of either class, as a state function.
done(t) ==
    IF tasks[t].cls = "SingleOutputPartitionTask"
    THEN SingleOutput_done(tasks[t]) ELSE MultiOutput_done(tasks[t])

\* ---------------------------------------------------------- specifications

RECURSIVE SeqsUpTo(_, _)
\* The sequences over S of length at most n.
SeqsUpTo(S, n) ==
    IF n = 0 THEN {<<>>}
    ELSE LET shorter == SeqsUpTo(S, n - 1)
         IN shorter \cup {Append(q, x) : q \in shorter, x \in S}

\* The lists an executor may hand to set_result.
ResultLists == SeqsUpTo(MaterializedResults, MaxResults)

\* No task of class cls has been created yet.
NoTaskOfClass(cls) == \A t \in 1..Len(tasks) : tasks[t].cls # cls

\* The task lifecycle: one builder, frozen as it is created into one task of
\* each class, and every operation of the two task classes on them, in any
\* order.
NextTask ==
    \/ PartitionTaskBuilder_init(1, <<"p1">>, None, DefaultResourceRequest)
    \/ NoTaskOfClass("SingleOutputPartitionTask")
           /\ finalize_partition_task_single_output(1)
    \/ NoTaskOfClass("MultiOutputPartitionTask")
           /\ \E num_results \in 0..MaxResults :
                  finalize_partition_task_multi_output(1, num_results)
    \/ \E t \in 1..Len(tasks), result \in ResultLists :
           SingleOutputPartitionTask_set_result(t, result)
    \/ \E t \in 1..Len(tasks), result \in ResultLists :
           MultiOutputPartitionTask_set_result(t, result)
    \/ \E t \in 1..Len(tasks) : SingleOutputPartitionTask_done(t)
    \/ \E t \in 1..Len(tasks) : SingleOutputPartitionTask_cancel(t)
    \/ \E t \in 1..Len(tasks) : SingleOutputPartitionTask_partition(t)
    \/ \E t \in 1..Len(tasks) : SingleOutputPartitionTask_partition_metadata(t)
    \/ \E t \in 1..Len(tasks) : SingleOutputPartitionTask_vpartition(t)
    \/ \E t \in 1..Len(tasks) : MultiOutputPartitionTask_done(t)
    \/ \E t \in 1..Len(tasks) : MultiOutputPartitionTask_cancel(t)
    \/ \E t \in 1..Len(tasks) : MultiOutputPartitionTask_partitions(t)
    \/ \E t \in 1..Len(tasks) : MultiOutputPartitionTask_partition_metadatas(t)
    \/ \E t \in 1..Len(tasks), index \in 0..(MaxResults - 1) :
           MultiOutputPartitionTask_vpartition(t, index)

SpecTask == Init /\ [][NextTask]_vars

\* Task ids: any number of builders, each frozen any number of times into
\* tasks of either class.
NextIds ==
    \/ \E b \in Builders :
           PartitionTaskBuilder_init(b, <<"p1">>, None, DefaultResourceRequest)
    \/ \E b \in Builders : finalize_partition_task_single_output(b)
    \/ \E b \in Builders, num_results \in 0..MaxResults :
           finalize_partition_task_multi_output(b, num_results)

SpecIds == Init /\ [][NextIds]_vars

\* The metadata a builder may be created with: none, that of scenario S1, and
\* a pair of which one entry is unknown in each field.
InitialMetadatas ==
    {None,
     Some(<<PartialPartitionMetadata(Some(100), Some(7))>>),
     Some(<<PartialPartitionMetadata(Some(3), None),
            PartialPartitionMetadata(None, Some(8))>>)}

\* Instructions of every arity; Slice and ReadFile raise on two metadatas.
PipelineInstructions ==
    {LocalLimit(10), Slice(1, 3), LocalCount, ReduceMerge, FanoutRandom(2),
     ReadFile(Some(4), None)}

\* The pipeline: one builder over one or two inputs, instructions added to it
\* before and after it is frozen into one task of each class.
NextPipeline ==
    \/ \E inputs \in {<<"p1">>, <<"p1", "p2">>}, partial_metadatas \in InitialMetadatas :
           PartitionTaskBuilder_init(1, inputs, partial_metadatas, DefaultResourceRequest)
    \/ \E instruction \in PipelineInstructions :
           add_instruction(1, instruction, DefaultResourceRequest)
    \/ NoTaskOfClass("SingleOutputPartitionTask")
           /\ finalize_partition_task_single_output(1)
    \/ NoTaskOfClass("MultiOutputPartitionTask")
           /\ finalize_partition_task_multi_output(1, 2)

SpecPipeline == Init /\ [][NextPipeline]_vars

\* The requests a caller may supply: the default, one with zeros, and two
\* that are each the larger in some field.
ResourceRequests ==
    {DefaultResourceRequest,
     ResourceRequest(Some(0), Some(1), Some(0)),
     ResourceRequest(Some(2), None, Some(4)),
     ResourceRequest(Some(1), Some(2), Some(1))}

\* Resource aggregation: one builder created with a request, instructions
\* added with requests (Slice raises after a fan-out), frozen into one task of
\* each class.
NextResources ==
    \/ \E resource_request \in ResourceRequests :
           PartitionTaskBuilder_init(1, <<"p1">>, None, resource_request)
    \/ \E instruction \in {FanoutRandom(2), Slice(0, 1)},
          resource_request \in ResourceRequests :
           add_instruction(1, instruction, resource_request)
    \/ NoTaskOfClass("SingleOutputPartitionTask")
           /\ finalize_partition_task_single_output(1)
    \/ NoTaskOfClass("MultiOutputPartitionTask")
           /\ \E num_results \in 0..MaxResults :
                  finalize_partition_task_multi_output(1, num_results)

SpecResources == Init /\ [][NextResources]_vars

\* ---- one run_partial_metadata call on any instruction and any metadatas

RowCounts == {None} \cup {Some(r) : r \in 0..MaxRows}

SizesInBytes == {None, Some(0), Some(MaxRows)}

Metadatas ==
    {PartialPartitionMetadata(r, z) : r \in RowCounts, z \in SizesInBytes}

MetadataLists == SeqsUpTo(Metadatas, MaxInputs)

\* Instances of every Instruction class.  The counts a FanoutInstruction
\* and a ReduceToQuantiles are built with go up to MaxInputs.
Instructions ==
    {ReadFile(f, l) : f \in RowCounts, l \in {None, Some(1)}}
    \cup {WriteFile, Filter, Project, LocalCount, MapPartition, Sample,
          Aggregate, Join, ReduceMerge, ReduceMergeAndSort}
    \cup {LocalLimit(k) : k \in 0..(MaxRows + 1)}
    \cup {Slice(s, e) : s \in (-1)..MaxRows, e \in 0..(MaxRows + 1)}
    \cup {ReduceToQuantiles(k) : k \in 1..MaxInputs}
    \cup {FanoutRandom(n) : n \in 0..MaxInputs}
    \cup {FanoutHash(n) : n \in 0..MaxInputs}
    \cup {FanoutRange(n) : n \in 0..MaxInputs}

\* No builder and no task; an instruction and the metadatas it is about
\* to be given.
InitPropagate ==
    /\ schedule = NoSchedule
    /\ runner = RunnerIdle
    /\ ID_GEN = 0
    /\ builder = <<>>
    /\ tasks = <<>>
    /\ history = <<>>
    /\ finalized = <<>>
    /\ \E instruction \in Instructions, input_metadatas \in MetadataLists :
           last = Call("pending", 0, <<instruction, input_metadatas>>, Returned(<<>>))

\* instruction.run_partial_metadata(input_metadatas)
Instruction_run_partial_metadata ==
    /\ last.op = "pending"
    /\ last' = Call("run_partial_metadata", 0, last.arg,
                    run_partial_metadata(last.arg[1], last.arg[2]))
    /\ UNCHANGED <<schedule, runner, ID_GEN, builder, tasks, history, finalized>>

NextPropagate == Instruction_run_partial_metadata

SpecPropagate == InitPropagate /\ [][NextPropagate]_vars

\* ---- a builder over tables, one instruction added to it and run on them

\* The tables of 0..MaxRows rows; a row is named by its position.
Tables == {Table([i \in 1..n |-> i]) : n \in 0..MaxRows}

TableLists == SeqsUpTo(Tables, MaxInputs)

\* The metadata of materialized tables: the rows known, the size not.
MetadatasOf(tables) ==
    [i \in 1..Len(tables) |-> PartialPartitionMetadata(Some(Table_len(tables[i])), None)]

RunInstructions == {instruction \in Instructions : instruction.op \in FixedArityOps}

\* instruction.run(inputs), for the instruction of builder b's
\* one-instruction pipeline on the builder's inputs.
Instruction_run(b) ==
    /\ b \in DOMAIN builder
    /\ Len(builder[b].instructions) = 1
    /\ last.op = "add_instruction"
    /\ LET instruction == builder[b].instructions[1]
           inputs == builder[b].inputs
       IN last' = Call("run", b, <<instruction, inputs>>, run(instruction, inputs))
    /\ UNCHANGED <<schedule, runner, ID_GEN, builder, tasks, history, finalized>>

NextRun ==
    \/ \E inputs \in TableLists :
           \E partial_metadatas \in {None, Some(MetadatasOf(inputs))} :
               PartitionTaskBuilder_init(1, inputs, partial_metadatas, DefaultResourceRequest)
    \/ \E instruction \in RunInstructions :
           /\ 1 \in DOMAIN builder
           /\ builder[1].instructions = <<>>
           /\ add_instruction(1, instruction, DefaultResourceRequest)
    \/ Instruction_run(1)

SpecRun == Init /\ [][NextRun]_vars

\* ------------------------------------------------------ DynamicRunner.run

\* A Construction: the position it was yielded at, and its inputs.
Construction(id, inputs) == [id |-> id, inputs |-> inputs]

\* The inputs a Construction carries.
ConstructionInputs == {<<"p1">>, <<"p1", "p2">>}

\* What a Construction's runnable returns.
RunnableResults == {<<"r1">>, <<"r1", "r2">>}

\* plan = self.optimize(plan); the schedule is built and wrapped.
DynamicRunner_run ==
    /\ runner.pc = "idle"
    /\ runner' = [runner EXCEPT !.pc = "for"]
    /\ UNCHANGED <<ID_GEN, builder, tasks, last, history, finalized, schedule>>

\* A loop that skips a None instead of asserting.
AfterYield_None_skipped(next_construction) ==
    IF next_construction = None THEN [pc |-> "for", err |-> ""]
    ELSE [pc |-> "_build_partitions", err |-> ""]

\* assert next_construction is not None; self._build_partitions(next_construction)
AfterYield(next_construction) ==
    IF next_construction = None THEN [pc |-> "raised", err |-> "AssertionError"]
    ELSE [pc |-> "_build_partitions", err |-> ""]

\* One iteration of `for next_construction in schedule`: the schedule yields
\* a Construction or None (next_construction is Some(c) or None).
DynamicRunner_run_for(next_construction) ==
    /\ runner.pc = "for"
    /\ next_construction # None => Len(runner.yielded) < MaxConstructions
    /\ runner' = [runner EXCEPT
           !.pc = AfterYield(next_construction).pc,
           !.err = AfterYield(next_construction).err,
           !.next_construction = next_construction,
           !.yielded = IF next_construction = None THEN @
                       ELSE Append(@, Val(next_construction))]
    /\ UNCHANGED <<ID_GEN, builder, tasks, last, history, finalized, schedule>>

\* The schedule raises StopIteration: the loop ends.
DynamicRunner_run_for_exhausted ==
    /\ runner.pc = "for"
    /\ runner' = [runner EXCEPT !.pc = "result_partition_set",
                                !.next_construction = None]
    /\ UNCHANGED <<ID_GEN, builder, tasks, last, history, finalized, schedule>>

\* construct_fn = partspec.get_runnable(); results = construct_fn(partspec.inputs)
\* The runnable returns its results or raises, and what it raises leaves run().
DynamicRunner_build_partitions_run(outcome) ==
    /\ runner.pc = "_build_partitions"
    /\ LET partspec == Val(runner.next_construction)
       IN runner' = [runner EXCEPT
              !.ran = Append(@, <<partspec, partspec.inputs>>),
              !.pc = IF outcome.err = "" THEN "report_completed" ELSE "raised",
              !.err = outcome.err,
              !.results = IF outcome.err = "" THEN Some(outcome.out) ELSE None]
    /\ UNCHANGED <<ID_GEN, builder, tasks, last, history, finalized, schedule>>

\* A report_completed that is called a second time.
ReportCompleted_twice(completed, partspec, results) ==
    completed \o <<[construction |-> partspec, results |-> results],
                   [construction |-> partspec, results |-> results]>>

\* partspec.report_completed(results)
ReportCompleted(completed, partspec, results) ==
    Append(completed, [construction |-> partspec, results |-> results])

DynamicRunner_build_partitions_report ==
    /\ runner.pc = "report_completed"
    /\ runner' = [runner EXCEPT
           !.completed = ReportCompleted(@, Val(runner.next_construction), Val(runner.results)),
           !.results = None,
           !.pc = "for"]
    /\ UNCHANGED <<ID_GEN, builder, tasks, last, history, finalized, schedule>>

\* schedule.result_partition_set(): the root's partitions, the results the
\* Constructions reported.
result_partition_set(completed) == [i \in 1..Len(completed) |-> completed[i].results]

\* final_result = schedule.result_partition_set()
\* pset_entry = self.put_partition_set_into_cache(final_result); return pset_entry
DynamicRunner_run_return ==
    /\ runner.pc = "result_partition_set"
    /\ runner' = [runner EXCEPT
           !.cache = Append(@, result_partition_set(runner.completed)),
           !.pc = "returned"]
    /\ UNCHANGED <<ID_GEN, builder, tasks, last, history, finalized, schedule>>

NextRunner ==
    \/ DynamicRunner_run
    \/ \E inputs \in ConstructionInputs :
           DynamicRunner_run_for(Some(Construction(Len(runner.yielded) + 1, inputs)))
    \/ DynamicRunner_run_for(None)
    \/ DynamicRunner_run_for_exhausted
    \/ \E results \in RunnableResults :
           DynamicRunner_build_partitions_run(Returned(results))
    \/ DynamicRunner_build_partitions_run(Raised("ExecutorError"))
    \/ DynamicRunner_build_partitions_report
    \/ DynamicRunner_run_return

SpecRunner == Init /\ [][NextRunner]_vars

\* ---- a builder that is added to and frozen while its tasks get results

\* An instruction and the request it is added with.
FinalizeInstructions ==
    {<<LocalLimit(1), ResourceRequest(Some(0), Some(1), Some(0))>>,
     <<FanoutRandom(2), DefaultResourceRequest>>}

NextFinalize ==
    \/ PartitionTaskBuilder_init(1, <<"p1">>, None, DefaultResourceRequest)
    \/ \E added \in FinalizeInstructions : add_instruction(1, added[1], added[2])
    \/ NoTaskOfClass("SingleOutputPartitionTask")
           /\ finalize_partition_task_single_output(1)
    \/ NoTaskOfClass("MultiOutputPartitionTask")
           /\ \E num_results \in 1..MaxResults :
                  finalize_partition_task_multi_output(1, num_results)
    \/ \E t \in 1..Len(tasks) : SingleOutputPartitionTask_set_result(t, <<"r1">>)
    \/ \E t \in 1..Len(tasks) : MultiOutputPartitionTask_set_result(t, <<"r1", "r2">>)

SpecFinalize == Init /\ [][NextFinalize]_vars

\* ---- pipelines in which every instruction gets the inputs it runs on

\* One instruction of every class; fanouts of 0..MaxInputs outputs.
ChainInstructions ==
    {ReadFile(Some(1), None), WriteFile, Filter, Project, LocalCount,
     LocalLimit(1), Slice(0, 1), MapPartition, Sample, Aggregate, Join,
     ReduceMerge, ReduceMergeAndSort, ReduceToQuantiles(1)}
    \cup {FanoutRandom(n) : n \in 0..MaxInputs}
    \cup {FanoutHash(n) : n \in 0..MaxInputs}
    \cup {FanoutRange(n) : n \in 0..MaxInputs}

\* The reduces run on any number of inputs, Join and FanoutRange on two,
\* every other instruction on one.
TakesInputs(instruction, n) ==
    \/ instruction.op \in {"ReduceMerge", "ReduceMergeAndSort", "ReduceToQuantiles"}
    \/ instruction.op \in {"Join", "FanoutRange"} /\ n = 2
    \/ instruction.op \in FixedArityOps \ {"Join", "FanoutRange"} /\ n = 1

NextChain ==
    \/ \E inputs \in {<<"p1">>, <<"p1", "p2">>} :
           PartitionTaskBuilder_init(1, inputs, None, DefaultResourceRequest)
    \/ \E instruction \in ChainInstructions :
           /\ 1 \in DOMAIN builder
           /\ TakesInputs(instruction, Len(builder[1].partial_metadatas))
           /\ add_instruction(1, instruction, DefaultResourceRequest)

SpecChain == Init /\ [][NextChain]_vars

\* ---- a builder that knows its tables' rows, one instruction added and run

\* One or more tables: a pipeline has inputs.
InputTableLists == TableLists \ {<<>>}

NextAgree ==
    \/ \E inputs \in InputTableLists :
           PartitionTaskBuilder_init(1, inputs, Some(MetadatasOf(inputs)),
                                     DefaultResourceRequest)
    \/ \E instruction \in Instructions :
           /\ 1 \in DOMAIN builder
           /\ builder[1].instructions = <<>>
           /\ add_instruction(1, instruction, DefaultResourceRequest)
    \/ Instruction_run(1)

SpecAgree == Init /\ [][NextAgree]_vars

\* ------------------------------------------------ the schedule of a sort

\* A partition the schedule hands around: an input of the sorted node, the
\* sample of one, the boundaries, the slice of one input for one key, or
\* the sorted output of one key.
Partition(kind, of, key) == [kind |-> kind, of |-> of, key |-> key]

\* A Construction of the schedule: the task id it runs under, its
\* instruction, the input partition or the key it is for, and its inputs.
ScheduledConstruction(id, instruction, of, inputs) ==
    [id |-> id, instruction |-> instruction, of |-> of, inputs |-> inputs]

\* The positions of the emitted Constructions of one instruction, in the
\* order of emission, which is the order of their task ids.
EmittedOf(op) ==
    SelectSeq([j \in 1..Len(schedule.emitted) |-> j],
              LAMBDA j : schedule.emitted[j].instruction.op = op)

IsEmitted(op, of) ==
    \E j \in 1..Len(schedule.emitted) :
        /\ schedule.emitted[j].instruction.op = op
        /\ schedule.emitted[j].of = of

\* Every one of the `count` Constructions of this instruction was emitted
\* and reported completed.
AllCompleted(op, count) ==
    /\ Len(EmittedOf(op)) = count
    /\ \A k \in 1..count : schedule.completed[EmittedOf(op)[k]] # None

\* The positions of the completed Constructions of one instruction, in
\* the order of their task ids: what the schedule has buffered of them.
CompletedOf(op) ==
    SelectSeq(EmittedOf(op), LAMBDA j : schedule.completed[j] # None)

\* (b) the samples are reduced once every input's sample is there.
QuantilesReady == AllCompleted("Sample", schedule.num_inputs)

\* (c) the inputs are fanned out once the boundaries are there.
BoundariesReady == AllCompleted("ReduceToQuantiles", 1)

\* The reduce of a key that waits for no producer but the first.
ReduceReady_after_first_fanout ==
    /\ Len(EmittedOf("FanoutRange")) = schedule.num_inputs
    /\ \E k \in 1..schedule.num_inputs :
           schedule.completed[EmittedOf("FanoutRange")[k]] # None

\* (d) a key is reduced once every producer's output for it is there.
ReduceReady == AllCompleted("FanoutRange", schedule.num_inputs)

\* The first result of each completed Construction of an instruction, in
\* the order of their task ids.
SampleResults ==
    [k \in 1..Len(CompletedOf("Sample")) |->
        Val(schedule.completed[CompletedOf("Sample")[k]])[1]]

Boundaries == Val(schedule.completed[EmittedOf("ReduceToQuantiles")[1]])[1]

\* The inputs in the order of run: the partition first.
FanoutRangeInputs_input_first(p) == <<Partition("input", p, 0), Boundaries>>

\* The inputs FanoutRange unpacks as [boundaries, input].
FanoutRangeInputs(p) == <<Boundaries, Partition("input", p, 0)>>

\* The buffered outputs at index `key` of the producers, in the order of
\* the producers' task ids.
ReduceInputs(key) ==
    [k \in 1..Len(CompletedOf("FanoutRange")) |->
        Val(schedule.completed[CompletedOf("FanoutRange")[k]])[key + 1]]

\* The results a Construction reports: Sample, the reduces one partition;
\* a fan-out one partition per key.
ResultsOf(construction) ==
    CASE construction.instruction.op = "Sample" ->
             <<Partition("sample", construction.of, 0)>>
      [] construction.instruction.op = "ReduceToQuantiles" ->
             <<Partition("boundaries", 0, 0)>>
      [] construction.instruction.op = "FanoutRange" ->
             [i \in 1..schedule.num_outputs |->
                 Partition("range", construction.of, i - 1)]
      [] construction.instruction.op = "ReduceMergeAndSort" ->
             <<Partition("sorted", 0, construction.of)>>

\* schedule_logical_node: the schedule of a sort of a node of num_inputs
\* partitions into num_outputs partitions.
schedule_logical_node(num_inputs, num_outputs) ==
    /\ schedule = NoSchedule
    /\ schedule' = [NoSchedule EXCEPT !.num_inputs = num_inputs,
                                      !.num_outputs = num_outputs]
    /\ UNCHANGED <<ID_GEN, builder, tasks, last, history, finalized, runner>>

\* The schedule yields a Construction, which takes the next task id.
Emit(instruction, of, inputs) ==
    /\ schedule' = [schedule EXCEPT
           !.emitted = Append(@, ScheduledConstruction(NextId(ID_GEN).id,
                                                       instruction, of, inputs)),
           !.completed = Append(@, None)]
    /\ ID_GEN' = NextId(ID_GEN).counter
    /\ UNCHANGED <<builder, tasks, last, history, finalized, runner>>

\* (a) Sample each input.
ScheduleSort_sample(p) ==
    /\ p \in 1..schedule.num_inputs
    /\ ~IsEmitted("Sample", p)
    /\ Emit(Sample, p, <<Partition("input", p, 0)>>)

\* (b) ReduceToQuantiles over the samples.
ScheduleSort_reduce_to_quantiles ==
    /\ schedule.num_inputs > 0
    /\ QuantilesReady
    /\ ~IsEmitted("ReduceToQuantiles", 0)
    /\ Emit(ReduceToQuantiles(schedule.num_outputs), 0, SampleResults)

\* (c) FanoutRange each input against the boundaries.
ScheduleSort_fanout_range(p) ==
    /\ p \in 1..schedule.num_inputs
    /\ BoundariesReady
    /\ ~IsEmitted("FanoutRange", p)
    /\ Emit(FanoutRange(schedule.num_outputs), p, FanoutRangeInputs(p))

\* (d) merge and sort the outputs of every key.
ScheduleSort_reduce(key) ==
    /\ key \in 0..(schedule.num_outputs - 1)
    /\ schedule.num_inputs > 0
    /\ ReduceReady
    /\ ~IsEmitted("ReduceMergeAndSort", key)
    /\ Emit(ReduceMergeAndSort, key, ReduceInputs(key))

\* Construction.report_completed: a runner reports the results of an
\* emitted Construction, in any order among those in flight.
Construction_report_completed(j) ==
    /\ j \in 1..Len(schedule.emitted)
    /\ schedule.completed[j] = None
    /\ schedule' = [schedule EXCEPT
           !.completed[j] = Some(ResultsOf(schedule.emitted[j]))]
    /\ UNCHANGED <<ID_GEN, builder, tasks, last, history, finalized, runner>>

\* A sort of up to MaxInputs partitions into up to MaxInputs partitions,
\* its Constructions run by a runner that completes them in any order.
NextSort ==
    \/ \E num_inputs \in 1..MaxInputs, num_outputs \in 1..MaxInputs :
           schedule_logical_node(num_inputs, num_outputs)
    \/ \E p \in 1..MaxInputs : ScheduleSort_sample(p)
    \/ ScheduleSort_reduce_to_quantiles
    \/ \E p \in 1..MaxInputs : ScheduleSort_fanout_range(p)
    \/ \E key \in 0..(MaxInputs - 1) : ScheduleSort_reduce(key)
    \/ \E j \in 1..(3 * MaxInputs + 1) : Construction_report_completed(j)

SpecSort == Init /\ [][NextSort]_vars

\* ------------------------------------------------------- the task lifecycle

\* The step is a call of `op` on task t (every operation records its call).
IsCallOn(op, t) == last'.op = op /\ last'.target = t

\* The results installed on task t, as a list (empty while t is pending).
Installed(t) ==
    IF tasks[t].cls = "SingleOutputPartitionTask"
    THEN (IF tasks[t].result = None THEN <<>> ELSE <<Val(tasks[t].result)>>)
    ELSE (IF tasks[t].results = None THEN <<>> ELSE Val(tasks[t].results))

Occurrences(list, x) == Cardinality({i \in 1..Len(list) : list[i] = x})

C1_Step ==
    /\ \A t \in 1..Len(tasks) :
           /\ done(t) => done(t)' /\ tasks'[t] = tasks[t]
           /\ ~done(t) /\ done(t)' => IsCallOn("set_result", t) /\ last'.err = ""
           /\ IsCallOn("set_result", t) /\ done(t) => last'.err # ""
           /\ IsCallOn("set_result", t) /\ last'.err = "" => ~done(t) /\ done(t)'
    /\ \A t \in (Len(tasks) + 1)..Len(tasks') : ~done(t)'

\* C1: a task is not done until a set_result on it succeeds; a set_result
\* succeeds only on a task that is not done and leaves it done; on a done task
\* every set_result fails and the task, its installed result included, stays as
\* it is; done() never goes back to false.
C1_SingleMaterialization == [][C1_Step]_vars

\* A second set_result has just failed on a task that is done.
C1_Witness ==
    /\ last.op = "set_result"
    /\ last.err = "AssertionError"
    /\ done(last.target)

\* C3 as stated: a multi-output task only ever holds a list of length
\* num_results, and a set_result with a list of another length fails.
C3_LengthMustEqualNumResults ==
    /\ \A t \in 1..Len(tasks) :
           IsMulti(t) /\ tasks[t].results # None
               => Len(Val(tasks[t].results)) = tasks[t].num_results
    /\ last.op = "set_result" /\ IsMulti(last.target)
           /\ Len(last.arg) # tasks[last.target].num_results
               => last.err # ""

C3_Step ==
    \A t \in 1..Len(tasks) :
        IsMulti(t) /\ IsCallOn("set_result", t) /\ tasks[t].results = None
            => last'.err = "" /\ tasks'[t].results = Some(last'.arg)

\* C3, amended: on a pending multi-output task set_result installs the list it
\* is given whatever its length; the length is not compared with num_results.
C3_AnyLengthInstalled == [][C3_Step]_vars

\* A multi-output task holds a list whose length is not its num_results.
C3_Witness ==
    \E t \in 1..Len(tasks) :
        /\ IsMulti(t)
        /\ tasks[t].results # None
        /\ Len(Val(tasks[t].results)) # tasks[t].num_results

ReadAccessors ==
    {"partition", "partition_metadata", "vpartition", "partitions", "partition_metadatas"}

C6_Step ==
    \A t \in 1..Len(tasks) :
        last'.op \in ReadAccessors /\ last'.target = t /\ ~done(t)
            => /\ last'.err = "AssertionError"
               /\ tasks' = tasks
               /\ builder' = builder
               /\ ID_GEN' = ID_GEN

\* C6: every read accessor of either class, called on a pending task, fails
\* with an assertion error and changes nothing.
C6_ReadRequiresMaterialized == [][C6_Step]_vars

\* A read accessor has just failed on a pending task.
C6_Witness ==
    /\ last.op \in ReadAccessors
    /\ last.err = "AssertionError"
    /\ ~done(last.target)

C7_Step ==
    \A t \in 1..Len(tasks) :
        IsSingle(t) /\ IsCallOn("set_result", t) /\ tasks[t].result = None
            => IF Len(last'.arg) = 1
               THEN last'.err = "" /\ tasks'[t].result = Some(last'.arg[1])
               ELSE last'.err # "" /\ tasks' = tasks /\ ~done(t)'

\* C7: on a pending single-output task, set_result with a list of length other
\* than 1 fails and leaves the task pending (so that a later one-element list
\* is judged by this same rule); with a one-element list it succeeds and that
\* element is the result.
C7_SingleOutputLength == [][C7_Step]_vars

\* A set_result with a list of the wrong length has just failed on a
\* single-output task, which is still pending.
C7_Witness ==
    /\ last.op = "set_result"
    /\ IsSingle(last.target)
    /\ Len(last.arg) # 1
    /\ last.err = "ValueError"
    /\ ~done(last.target)

C8_Step ==
    \A t \in 1..Len(tasks) :
        IsCallOn("cancel", t)
            => /\ last'.err = ""
               /\ \A r \in MaterializedResults :
                      Occurrences(last'.out, r) = Occurrences(Installed(t), r)
               /\ Len(last'.out) = Len(Installed(t))
               /\ tasks' = tasks

\* C8: cancel() calls cancel() once on each entry of the installed result list
\* (the one result of a single-output task, every result of a multi-output
\* task) and on nothing else, calls nothing on a pending task, and in both
\* cases leaves every task, done() and the installed results included, as it is.
C8_CancelForwards == [][C8_Step]_vars

\* cancel() has just been forwarded to the two results of a multi-output task.
C8_Witness ==
    /\ last.op = "cancel"
    /\ IsMulti(last.target)
    /\ Len(last.out) = 2
    /\ last.out[1] # last.out[2]
    /\ done(last.target)

\* ------------------------------------------------------------- the task ids

\* C5: the ids of the tasks are strictly increasing in the order of their
\* creation, so no two tasks share an id, whichever builders and finalize
\* operations created them; the counter is ahead of every id handed out.
C5_UniqueIncreasingIds ==
    /\ \A i, j \in 1..Len(tasks) : i < j => tasks[i].id < tasks[j].id
    /\ \A i \in 1..Len(tasks) : tasks[i].id < ID_GEN

\* Two tasks of different classes frozen from the same builder while
\* another builder exists.
C5_Witness ==
    \E i, j \in 1..Len(tasks) :
        /\ i < j
        /\ tasks[i].instructions = tasks[j].instructions
        /\ tasks[i].cls # tasks[j].cls
        /\ Cardinality(DOMAIN builder) >= 2

\* ------------------------------------------------------------- the pipeline

\* C2 as stated: the pipeline of a frozen task is the one it was frozen with,
\* in every later state.
C2_FrozenPipelineNeverChanges ==
    \A t \in 1..Len(tasks) : TaskInstructions(t) = finalized[t].instructions

\* The metadata builder b started from: the list given, or one unknown entry
\* per input.
InitialPartialMetadatas(b) ==
    IF history[b].partial_metadatas # None THEN Val(history[b].partial_metadatas)
    ELSE [i \in 1..Len(builder[b].inputs) |-> PartialPartitionMetadata(None, None)]

RECURSIVE PropagateThrough(_, _)
\* in.propagate(...i1.propagate(M)...) over the calls that returned; a call
\* that raised has replaced nothing.
PropagateThrough(metadatas, calls) ==
    IF calls = <<>> THEN metadatas
    ELSE PropagateThrough(
             IF Head(calls).err = ""
             THEN run_partial_metadata(Head(calls).instruction, metadatas).out
             ELSE metadatas,
             Tail(calls))

\* C9: the builder's pipeline is the instructions of its add_instruction
\* calls in call order, and its partial_metadatas are the initial metadata
\* propagated through them in that order (a call whose propagation raised
\* has appended its instruction and propagated nothing).
C9_PipelineAndMetadata ==
    \A b \in DOMAIN builder :
        /\ builder[b].instructions =
               [i \in 1..Len(history[b].calls) |-> history[b].calls[i].instruction]
        /\ builder[b].partial_metadatas =
               PropagateThrough(InitialPartialMetadatas(b), history[b].calls)

\* Scenario S1: created with [{rows: 100}], after LocalLimit(10) the metadata
\* is [{rows: 10}].
C9_Witness ==
    /\ 1 \in DOMAIN builder
    /\ history[1].partial_metadatas = Some(<<PartialPartitionMetadata(Some(100), Some(7))>>)
    /\ builder[1].instructions = <<LocalLimit(10)>>
    /\ builder[1].partial_metadatas = <<PartialPartitionMetadata(Some(10), None)>>

\* ------------------------------------------------------ resource aggregation

\* The requests supplied to the builder of task t before t was created: the
\* constructor's and those of the add_instruction calls.
SuppliedAll(t) ==
    LET h == history[finalized[t].builder]
    IN {h.resource_request} \cup
       {h.calls[i].resource_request : i \in 1..Len(finalized[t].instructions)}

\* Those of them that reached the aggregation: a call that raised in
\* run_partial_metadata never got to its request.
SuppliedReturned(t) ==
    LET h == history[finalized[t].builder]
    IN {h.resource_request} \cup
       {h.calls[i].resource_request :
            i \in {j \in 1..Len(finalized[t].instructions) : h.calls[j].err = ""}}

\* The maximum of a field over the requests that set it; None when none does.
MaxOver(requests, field) ==
    LET values == {Val(r[field]) : r \in {q \in requests : q[field] # None}}
    IN IF values = {} THEN None
       ELSE Some(CHOOSE m \in values : \A v \in values : v <= m)

\* C4 as stated: every field of the task's request is the maximum over all
\* the requests supplied, and num_cpus is 1 exactly when none sets num_cpus.
C4_MaxOfAllSupplied ==
    \A t \in 1..Len(tasks) :
        LET supplied == SuppliedAll(t)
            request == tasks[t].resource_request
        IN /\ request.num_gpus = MaxOver(supplied, "num_gpus")
           /\ request.memory_bytes = MaxOver(supplied, "memory_bytes")
           /\ request.num_cpus =
                  IF MaxOver(supplied, "num_cpus") = None THEN Some(1)
                  ELSE MaxOver(supplied, "num_cpus")

\* C4, amended: over the requests supplied to the constructor and to the
\* add_instruction calls that returned, num_gpus is the maximum; num_cpus is
\* the maximum, or 1 when that maximum is absent or 0; memory_bytes is the
\* maximum, except that a single-output task turns a maximum of 0 into absent.
C4_MaxWithFalsyDefaults ==
    \A t \in 1..Len(tasks) :
        LET supplied == SuppliedReturned(t)
            request == tasks[t].resource_request
            cpus == MaxOver(supplied, "num_cpus")
            memory == MaxOver(supplied, "memory_bytes")
        IN /\ request.num_gpus = MaxOver(supplied, "num_gpus")
           /\ request.num_cpus = IF cpus \in {None, Some(0)} THEN Some(1) ELSE cpus
           /\ request.memory_bytes =
                  IF IsSingle(t) /\ memory = Some(0) THEN None ELSE memory

\* A task frozen after two requests that are each the larger in some field,
\* and a single-output task whose aggregated memory_bytes was 0.
C4_Witness ==
    /\ \E t \in 1..Len(tasks) :
           /\ ResourceRequest(Some(2), None, Some(4)) \in SuppliedReturned(t)
           /\ ResourceRequest(Some(1), Some(2), Some(1)) \in SuppliedReturned(t)
           /\ tasks[t].resource_request = ResourceRequest(Some(2), Some(2), Some(4))
    /\ \E t \in 1..Len(tasks) :
           /\ IsSingle(t)
           /\ finalized[t].resource_request.memory_bytes = Some(0)
           /\ tasks[t].resource_request.memory_bytes = None

Propagated == last.op = "run_partial_metadata"

PropagatedInstruction == last.arg[1]

PropagatedInputs == last.arg[2]

\* The instructions that run on one input partition.
SingleInputOps ==
    {"ReadFile", "WriteFile", "Filter", "Project", "LocalCount", "LocalLimit",
     "Slice", "MapPartition", "Sample", "Aggregate", "FanoutRandom", "FanoutHash"}

\* The single-input instructions whose row count is fixed by the
\* instruction alone.
FixedRowsOps == {"ReadFile", "WriteFile", "LocalCount"}

\* A single-input instruction was given one metadata with a known row count.
KnownRowsIn ==
    /\ Propagated
    /\ PropagatedInstruction.op \in SingleInputOps
    /\ Len(PropagatedInputs) = 1
    /\ PropagatedInputs[1].num_rows # None
    /\ last.err = ""

\* C11 (as stated): a single-input instruction given a known row count r
\* never reports a known row count above r.
C11_OnlyTightens ==
    KnownRowsIn =>
        \A i \in 1..Len(last.out) :
            last.out[i].num_rows # None
                => Val(last.out[i].num_rows) <= Val(PropagatedInputs[1].num_rows)

\* C11 (amended): a single-input instruction other than ReadFile, WriteFile
\* and LocalCount, given a known row count r, never reports a known row
\* count above r; ReadFile, WriteFile and LocalCount report a row count that
\* does not depend on r and may exceed it (1 for WriteFile and LocalCount,
\* the file's rows, cut to the read limit, for ReadFile).
C11_TightensUnlessFixed ==
    KnownRowsIn =>
        LET self == PropagatedInstruction
            r == Val(PropagatedInputs[1].num_rows)
        IN IF self.op \in FixedRowsOps
           THEN /\ Len(last.out) = 1
                /\ self.op \in {"WriteFile", "LocalCount"}
                       => last.out[1].num_rows = Some(1)
                /\ self.op = "ReadFile" =>
                       last.out[1].num_rows =
                           IF self.file_rows = None \/ self.limit_rows = None
                           THEN self.file_rows
                           ELSE IF Val(self.limit_rows) < Val(self.file_rows)
                                THEN self.limit_rows ELSE self.file_rows
           ELSE \A i \in 1..Len(last.out) :
                    last.out[i].num_rows # None => Val(last.out[i].num_rows) <= r

\* A LocalLimit below the known row count cut it, and a Slice did too.
C11_Witness ==
    /\ KnownRowsIn
    /\ PropagatedInstruction.op = "LocalLimit"
    /\ PropagatedInstruction.limit < Val(PropagatedInputs[1].num_rows)
    /\ last.out[1].num_rows = Some(PropagatedInstruction.limit)

\* No entry of the list has the field known.
NoneKnown(metadatas, field) ==
    \A i \in 1..Len(metadatas) : metadatas[i][field] = None

\* The outputs the contract fixes independently of the input.
FixedByContract(self, field) ==
    \/ field = "num_rows" /\ self.op = "ReadFile" /\ self.file_rows # None
    \/ field = "num_rows" /\ self.op \in {"WriteFile", "LocalCount", "ReduceToQuantiles"}
    \/ field = "size_bytes" /\ self.op = "LocalCount"

MetadataFields == {"num_rows", "size_bytes"}

\* C12 (as stated): when no input has a field known, no output has it known,
\* except for the outputs the contract fixes.
C12_NeverInvents ==
    Propagated /\ last.err = "" =>
        \A field \in MetadataFields :
            NoneKnown(PropagatedInputs, field)
              /\ ~FixedByContract(PropagatedInstruction, field)
                => NoneKnown(last.out, field)

\* C12 (amended): when the input list is not empty and no input has a field
\* known, no output has it known, except for the outputs the contract fixes;
\* on the empty input list ReduceMerge and ReduceMergeAndSort report rows 0
\* and size 0, and every other instruction reports nothing known beyond the
\* outputs the contract fixes.
C12_NeverInventsFromInputs ==
    Propagated /\ last.err = "" =>
        \A field \in MetadataFields :
            NoneKnown(PropagatedInputs, field)
              /\ ~FixedByContract(PropagatedInstruction, field)
                => IF PropagatedInputs = <<>>
                      /\ PropagatedInstruction.op \in {"ReduceMerge", "ReduceMergeAndSort"}
                   THEN Len(last.out) = 1 /\ last.out[1][field] = Some(0)
                   ELSE NoneKnown(last.out, field)

\* A Filter over two metadatas of unknown rows and known sizes reported two
\* metadatas with nothing known.
C12_Witness ==
    /\ Propagated
    /\ PropagatedInstruction.op = "Filter"
    /\ Len(PropagatedInputs) = 2
    /\ NoneKnown(PropagatedInputs, "num_rows")
    /\ Len(last.out) = 2
    /\ NoneKnown(last.out, "num_rows")

\* C13: LocalLimit(k) maps every input metadata to one output metadata: a
\* known row count r to min(k, r), an unknown one to unknown, and the size
\* to unknown.
C13_LocalLimit ==
    Propagated /\ PropagatedInstruction.op = "LocalLimit" =>
        /\ last.err = ""
        /\ Len(last.out) = Len(PropagatedInputs)
        /\ \A i \in 1..Len(PropagatedInputs) :
               LET k == PropagatedInstruction.limit
                   rows == PropagatedInputs[i].num_rows
               IN /\ rows = None => last.out[i].num_rows = None
                  /\ rows # None =>
                         last.out[i].num_rows =
                             Some(IF k < Val(rows) THEN k ELSE Val(rows))
                  /\ last.out[i].size_bytes = None

\* A LocalLimit given a row count above its limit and an unknown row count.
C13_Witness ==
    /\ Propagated
    /\ PropagatedInstruction.op = "LocalLimit"
    /\ Len(PropagatedInputs) = 2
    /\ PropagatedInputs[1].num_rows # None
    /\ Val(PropagatedInputs[1].num_rows) > PropagatedInstruction.limit
    /\ PropagatedInputs[1].size_bytes # None
    /\ PropagatedInputs[2].num_rows = None
    /\ last.out[1].num_rows = Some(PropagatedInstruction.limit)
    /\ last.out[2].num_rows = None

RECURSIVE Total(_, _, _)
\* The sum of the field over the first n entries.
Total(metadatas, field, n) ==
    IF n = 0 THEN 0
    ELSE Total(metadatas, field, n - 1) + Val(metadatas[n][field])

\* Some(sum) when every entry has the field, None otherwise.
SumIfAllKnown(metadatas, field) ==
    IF \E i \in 1..Len(metadatas) : metadatas[i][field] = None THEN None
    ELSE Some(Total(metadatas, field, Len(metadatas)))

\* C15: ReduceMerge and ReduceMergeAndSort report one metadata; its rows are
\* the sum of the input rows when all are known and unknown otherwise, and
\* its size, independently, the sum of the input sizes when all are known
\* and unknown otherwise.
C15_ReduceSums ==
    Propagated /\ PropagatedInstruction.op \in {"ReduceMerge", "ReduceMergeAndSort"} =>
        /\ last.err = ""
        /\ last.out = <<PartialPartitionMetadata(
                           SumIfAllKnown(PropagatedInputs, "num_rows"),
                           SumIfAllKnown(PropagatedInputs, "size_bytes"))>>

\* A ReduceMerge over two metadatas, a row count missing and both sizes
\* known: rows unknown, size the sum.
C15_Witness ==
    /\ Propagated
    /\ PropagatedInstruction.op = "ReduceMerge"
    /\ Len(PropagatedInputs) = 2
    /\ PropagatedInputs[1].num_rows = None
    /\ PropagatedInputs[1].size_bytes = Some(MaxRows)
    /\ PropagatedInputs[2].size_bytes = Some(MaxRows)
    /\ last.out = <<PartialPartitionMetadata(None, Some(MaxRows + MaxRows))>>

\* C17: ReduceToQuantiles(k) reports exactly one metadata, rows = k and size
\* unknown, for any number of inputs, known or not.
C17_ReduceToQuantiles ==
    Propagated /\ PropagatedInstruction.op = "ReduceToQuantiles" =>
        /\ last.err = ""
        /\ last.out = <<PartialPartitionMetadata(
                           Some(PropagatedInstruction.num_quantiles), None)>>

\* A ReduceToQuantiles over no input, and over two inputs of unknown rows,
\* is the case; the state is the one over no input.
C17_Witness ==
    /\ Propagated
    /\ PropagatedInstruction.op = "ReduceToQuantiles"
    /\ PropagatedInputs = <<>>
    /\ last.out[1].num_rows = Some(PropagatedInstruction.num_quantiles)


\* ------------------------------------------- running a single instruction

\* The last step ran the instruction of builder 1 on the builder's inputs.
Ran == last.op = "run"

RanInstruction == last.arg[1]

RanInputs == last.arg[2]

\* The last step added the instruction to builder 1.
Added == last.op = "add_instruction"

AddedInstruction == last.arg[1]

\* The metadatas the added instruction was given.
AddedInputs == InitialPartialMetadatas(1)

\* The rows of the table at the 0-based indices lo, ..., hi - 1.
RowsBetween(table, lo, hi) == [i \in 1..(hi - lo) |-> table.rows[lo + i]]

Smaller(a, b) == IF a < b THEN a ELSE b

\* C14: Slice(s, e) with s >= 0 run on one table returns exactly the rows at
\* indices [s, min(e, len)), in order (none when s >= min(e, len)), so
\* Slice(0, len(t)) returns t; given one metadata it reports rows
\* max(0, min(e, r) - s) for a known row count r and unknown otherwise.
C14_SliceClamps ==
    /\ Ran /\ RanInstruction.op = "Slice" /\ RanInstruction.start >= 0
           /\ Len(RanInputs) = 1 =>
           LET self == RanInstruction
               t == RanInputs[1]
               n == Len(t.rows)
           IN /\ last.err = ""
              /\ Len(last.out) = 1
              /\ last.out[1].rows = RowsBetween(t, self.start, Smaller(self.end, n))
              /\ self.start >= Smaller(self.end, n) => last.out[1].rows = <<>>
              /\ self.start = 0 /\ self.end = n => last.out[1] = t
    /\ Added /\ AddedInstruction.op = "Slice" /\ AddedInstruction.start >= 0
             /\ Len(AddedInputs) = 1 =>
           LET self == AddedInstruction
               r == AddedInputs[1].num_rows
               reported == builder[1].partial_metadatas
           IN /\ last.err = ""
              /\ Len(reported) = 1
              /\ r = None => reported[1].num_rows = None
              /\ r # None =>
                     LET d == Smaller(self.end, Val(r)) - self.start
                     IN reported[1].num_rows = Some(IF d > 0 THEN d ELSE 0)

\* A Slice whose end lies beyond the table returned the rows from its start
\* to the table's last row.
C14_Witness ==
    /\ Ran
    /\ RanInstruction.op = "Slice"
    /\ Len(RanInputs) = 1
    /\ RanInstruction.start = 1
    /\ RanInstruction.end > Len(RanInputs[1].rows)
    /\ Len(RanInputs[1].rows) = 2
    /\ last.out = <<Table(<<2>>)>>

FanoutOps == {"FanoutRandom", "FanoutHash", "FanoutRange"}

\* The number of inputs each instruction runs on.
InArity(op) == IF op \in {"Join", "FanoutRange"} THEN 2 ELSE 1

\* A fanout of n >= 1 outputs was added: n entries, nothing known.
FanoutPropagatesN ==
    Added /\ AddedInstruction.op \in FanoutOps /\ AddedInstruction.num_outputs >= 1 =>
        /\ last.err = ""
        /\ Len(builder[1].partial_metadatas) = AddedInstruction.num_outputs
        /\ \A i \in 1..Len(builder[1].partial_metadatas) :
               /\ builder[1].partial_metadatas[i].num_rows = None
               /\ builder[1].partial_metadatas[i].size_bytes = None

\* A fanout of n >= 1 outputs was run on as many inputs as it takes.
FanoutRan ==
    /\ Ran
    /\ RanInstruction.op \in FanoutOps
    /\ RanInstruction.num_outputs >= 1
    /\ Len(RanInputs) = InArity(RanInstruction.op)

ArityCheckedAtRun ==
    Ran /\ Len(RanInputs) # InArity(RanInstruction.op) =>
        /\ last.err \in {"AssertionError", "ValueError"}
        /\ last.out = <<>>

\* The instruction was added to a builder that holds a number of metadatas
\* other than the number of inputs the instruction runs on.
AddedIllFormed ==
    /\ Added
    /\ AddedInstruction.op \in FixedArityOps
    /\ Len(AddedInputs) # InArity(AddedInstruction.op)

\* C18 (as stated): a run on the wrong number of inputs fails without
\* output, and add_instruction accepts the same pipeline without error.
C18_ArityCheckedAtRunOnly ==
    /\ ArityCheckedAtRun
    /\ AddedIllFormed => last.err = ""

\* The instructions whose run_partial_metadata takes exactly one metadata.
OneMetadataOps == {"ReadFile", "WriteFile", "Slice"}

\* C18 (amended): a run on the wrong number of inputs fails without output;
\* add_instruction accepts the same pipeline without error, except for
\* ReadFile, WriteFile and Slice, for which add_instruction raises and
\* leaves the instruction appended and the metadata as it was.
C18_ArityAlsoCheckedByThree ==
    /\ ArityCheckedAtRun
    /\ AddedIllFormed =>
           /\ builder[1].instructions = <<AddedInstruction>>
           /\ IF AddedInstruction.op \in OneMetadataOps
              THEN /\ last.err = IF AddedInstruction.op = "Slice"
                                 THEN "ValueError" ELSE "AssertionError"
                   /\ builder[1].partial_metadatas = AddedInputs
              ELSE last.err = ""

\* A Join was run on one input and failed.
C18_Witness ==
    /\ Ran
    /\ RanInstruction.op = "Join"
    /\ Len(RanInputs) = 1
    /\ last.err = "ValueError"
    /\ builder[1].instructions = <<Join>>


\* ---------------------------------------------------------- the runner

\* The Constructions reported completed, in the order of the reports.
CompletedConstructions(r) == [i \in 1..Len(r.completed) |-> r.completed[i].construction]

\* The Constructions yielded and not yet reported completed.
InFlight(r) == Len(r.yielded) - Len(r.completed)

\* Every yielded Construction was run on its inputs and reported.
AllReported(r) ==
    /\ CompletedConstructions(r) = r.yielded
    /\ r.ran = [i \in 1..Len(r.yielded) |-> <<r.yielded[i], r.yielded[i].inputs>>]

C19_Step ==
    \* at most one Construction is in flight
    /\ InFlight(runner') \in {0, 1}
    \* the reports are the yields, in order, each once, the last one possibly missing
    /\ CompletedConstructions(runner') =
           SubSeq(runner'.yielded, 1, Len(runner'.completed))
    \* a runnable runs before its report, on the Construction's inputs
    /\ Len(runner'.ran) \in {Len(runner'.completed), Len(runner'.completed) + 1}
    /\ \A i \in 1..Len(runner'.ran) :
           runner'.ran[i] = <<runner'.yielded[i], runner'.yielded[i].inputs>>
    \* the schedule is pulled only when everything it yielded is reported
    /\ runner.pc = "for" => AllReported(runner)
    \* the report carries the results the runnable returned
    /\ runner.pc = "report_completed" =>
           /\ runner.completed = SubSeq(runner'.completed, 1, Len(runner.completed))
           /\ Len(runner'.completed) = Len(runner.completed) + 1
           /\ runner'.completed[Len(runner'.completed)] =
                  [construction |-> runner.yielded[Len(runner.yielded)],
                   results |-> Val(runner.results)]

\* C19: DynamicRunner.run runs each yielded Construction's runnable on its
\* inputs and then reports it completed with those results exactly once,
\* before it pulls the next Construction: at most one Construction is in
\* flight, and the reports come in the order of the yields.
C19_OneInFlight == [][C19_Step]_vars

\* Two Constructions were yielded, run and reported, and the runner is about
\* to pull the schedule again.
C19_Witness ==
    /\ runner.pc = "for"
    /\ Len(runner.yielded) = 2
    /\ Len(runner.completed) = 2
    /\ runner.completed[1].construction.id = 1
    /\ runner.completed[2].construction.id = 2

C20_Step ==
    \* one cache entry at most, put when run() returns
    /\ Len(runner'.cache) <= 1
    /\ runner'.cache # <<>> <=> runner'.pc = "returned"
    \* the entry is put after the schedule is exhausted and all is reported
    /\ runner'.cache # runner.cache =>
           /\ runner.pc = "result_partition_set"
           /\ runner.cache = <<>>
           /\ AllReported(runner)
           /\ runner'.err = ""
    \* a None from the schedule aborts the run
    /\ runner.pc = "for" /\ runner'.yielded = runner.yielded
           /\ runner'.pc # "result_partition_set" =>
           runner'.pc = "raised" /\ runner'.err = "AssertionError"
    \* a runnable that raises aborts the run
    /\ runner.pc = "_build_partitions" /\ runner'.results = None =>
           runner'.pc = "raised" /\ runner'.err # ""
    \* an aborted run stays aborted, without a cache entry
    /\ runner'.pc = "raised" => runner'.cache = <<>> /\ runner'.err # ""
    /\ runner.pc = "raised" => runner'.pc = "raised"

\* C20: DynamicRunner.run puts the root's result into the partition cache
\* exactly once, and only after the schedule is exhausted and every yielded
\* Construction is reported completed; when the schedule yields None or a
\* Construction fails, the run aborts and no cache entry is produced.
C20_CacheOnceAtTheEnd == [][C20_Step]_vars

\* A run over two Constructions returned with its one cache entry.
C20_Witness ==
    /\ runner.pc = "returned"
    /\ Len(runner.yielded) = 2
    /\ AllReported(runner)
    /\ Len(runner.cache) = 1


\* ------------------------------------------------- the frame of finalize

FinalizeOps ==
    {"finalize_partition_task_single_output", "finalize_partition_task_multi_output"}

C25_Step ==
    last'.op \in FinalizeOps =>
        LET n == Len(tasks')
        IN \* the builder is as it was, its rolling request not defaulted
           /\ builder' = builder
           /\ history' = history
           \* one task more, the earlier ones as they were
           /\ n = Len(tasks) + 1
           /\ \A t \in 1..Len(tasks) : tasks'[t] = tasks[t]
           \* the new task is pending, whatever the earlier tasks hold
           /\ "result" \in DOMAIN tasks'[n] => tasks'[n].result = None
           /\ "results" \in DOMAIN tasks'[n] => tasks'[n].results = None

\* C25: both finalize methods leave the builder as it was (inputs,
\* instructions, partial_metadatas and the rolling resource_request), and
\* the task they return is pending, with no result, whatever the tasks
\* frozen earlier from the same builder hold.
C25_FinalizeFrame == [][C25_Step]_vars

\* A second task was just frozen from a builder with an instruction and a
\* request of 0 cpus, after the first task got its result: the second task
\* is pending and the builder's request still holds the 0.
C25_Witness ==
    /\ last.op = "finalize_partition_task_multi_output"
    /\ Len(tasks) = 2
    /\ tasks[1].result # None
    /\ tasks[2].results = None
    /\ builder[1].instructions # <<>>
    /\ builder[1].resource_request.num_cpus = Some(0)
    /\ tasks[2].resource_request.num_cpus = Some(1)


\* ------------------------------------------- the length of the metadata

\* The partitions an instruction outputs: num_outputs for a fan-out, one
\* for every other instruction.
OutArity(instruction) ==
    IF instruction.op \in FanoutOps THEN instruction.num_outputs ELSE 1

ReduceOps == {"ReduceMerge", "ReduceMergeAndSort", "ReduceToQuantiles"}

C24_Step ==
    /\ last'.op = "add_instruction"
    /\ 1 \in DOMAIN builder
    /\ \/ last'.arg[1].op \in ReduceOps
       \/ Len(builder[1].partial_metadatas) = InArity(last'.arg[1].op)
    => /\ last'.err = ""
       /\ Len(builder'[1].partial_metadatas) = OutArity(last'.arg[1])

\* C24: when every instruction is added while the builder holds as many
\* metadatas as the instruction takes inputs, then after every
\* add_instruction partial_metadatas has one entry per partition the
\* pipeline outputs: num_outputs after a fan-out, 1 after any other
\* instruction.
C24_MetadataLength == [][C24_Step]_vars

\* A Join was added after a fan-out of two outputs: two metadatas became one.
C24_Witness ==
    /\ last.op = "add_instruction"
    /\ Len(builder[1].instructions) = 2
    /\ builder[1].instructions[1].op = "FanoutHash"
    /\ builder[1].instructions[1].num_outputs = 2
    /\ builder[1].instructions[2].op = "Join"
    /\ Len(builder[1].partial_metadatas) = 1


\* ------------------------------------------- metadata against execution

\* The instructions whose propagated row count the run is held to.
AgreeOps ==
    {"LocalLimit", "Slice", "Project", "LocalCount",
     "ReduceMerge", "ReduceMergeAndSort", "ReduceToQuantiles"}

\* C23: when the instruction was given the exact row counts of the tables,
\* propagated a known row count and then ran on the tables, the table it
\* returned has exactly that many rows.
C23_MetadataAgreesWithRun ==
    /\ Ran
    /\ last.err = ""
    /\ RanInstruction.op \in AgreeOps
    /\ history[1].calls[1].err = ""
    => /\ Len(last.out) = Len(builder[1].partial_metadatas)
       /\ \A i \in 1..Len(last.out) :
              builder[1].partial_metadatas[i].num_rows # None =>
                  Table_num_rows(last.out[i]) = builder[1].partial_metadatas[i].num_rows


\* --------------------------------------------- the schedule's boundaries

\* The step emitted a Construction of this instruction.
Emits(op) ==
    /\ Len(schedule'.emitted) = Len(schedule.emitted) + 1
    /\ schedule'.emitted[Len(schedule'.emitted)].instruction.op = op

Emitted == schedule'.emitted[Len(schedule'.emitted)]

\* The task id of the fan-out of input partition p, once emitted.
ProducerId(p) ==
    LET j == CHOOSE j \in 1..Len(schedule.emitted) :
                 /\ schedule.emitted[j].instruction.op = "FanoutRange"
                 /\ schedule.emitted[j].of = p
    IN  schedule.emitted[j].id

\* The output of producer p for a key is materialized.
Materialized(p, key) ==
    \E j \in 1..Len(schedule.emitted) :
        /\ schedule.emitted[j].instruction.op = "FanoutRange"
        /\ schedule.emitted[j].of = p
        /\ schedule.completed[j] # None
        /\ Val(schedule.completed[j])[key + 1] = Partition("range", p, key)

ReducesOf(key) ==
    {j \in 1..Len(schedule.emitted) :
        /\ schedule.emitted[j].instruction.op = "ReduceMergeAndSort"
        /\ schedule.emitted[j].of = key}

\* Nothing is in flight and the schedule has nothing more to emit.
ScheduleExhausted ==
    /\ schedule # NoSchedule
    /\ \A j \in 1..Len(schedule.emitted) : schedule.completed[j] # None
    /\ ~ENABLED (\/ \E p \in 1..MaxInputs : ScheduleSort_sample(p)
                 \/ ScheduleSort_reduce_to_quantiles
                 \/ \E p \in 1..MaxInputs : ScheduleSort_fanout_range(p)
                 \/ \E key \in 0..(MaxInputs - 1) : ScheduleSort_reduce(key))

C21_Step ==
    Emits("ReduceMergeAndSort") =>
        /\ Emitted.of \in 0..(schedule.num_outputs - 1)
        /\ ReducesOf(Emitted.of) = {}
        /\ \A p \in 1..schedule.num_inputs : Materialized(p, Emitted.of)
        /\ Len(Emitted.inputs) = schedule.num_inputs
        /\ \A k \in 1..Len(Emitted.inputs) :
               /\ Emitted.inputs[k].kind = "range"
               /\ Emitted.inputs[k].key = Emitted.of
               /\ Emitted.inputs[k].of \in 1..schedule.num_inputs
        /\ \A k, l \in 1..Len(Emitted.inputs) :
               k < l => ProducerId(Emitted.inputs[k].of)
                            < ProducerId(Emitted.inputs[l].of)

C21_OnePerKey ==
    /\ \A key \in 0..(MaxInputs - 1) : Cardinality(ReducesOf(key)) <= 1
    /\ \A key \in schedule.num_outputs..(MaxInputs - 1) : ReducesOf(key) = {}
    /\ ScheduleExhausted =>
           \A key \in 0..(schedule.num_outputs - 1) :
               Cardinality(ReducesOf(key)) = 1

\* C21: the reduce Construction of a key is emitted only once every
\* producer's output for that key is materialized, its inputs are one
\* partition per producer in the order of the producers' task ids, and
\* every key 0..n-1 gets exactly one reduce Construction.
C21_ReduceBoundary == []C21_OnePerKey /\ [][C21_Step]_vars

\* The reduce of key 1 over two producers whose task ids run against the
\* order of the input partitions.
C21_Witness ==
    /\ schedule.num_inputs = 2
    /\ schedule.num_outputs = 2
    /\ \E j \in ReducesOf(1) :
           schedule.emitted[j].inputs
               = <<Partition("range", 2, 1), Partition("range", 1, 1)>>


\* ----------------------------------------------------- the sort protocol

\* The positions of the emitted ReduceToQuantiles Constructions.
QuantilesOf ==
    {j \in 1..Len(schedule.emitted) :
        schedule.emitted[j].instruction.op = "ReduceToQuantiles"}

FanoutsOf ==
    {j \in 1..Len(schedule.emitted) :
        schedule.emitted[j].instruction.op = "FanoutRange"}

\* The Sample of input partition p was emitted and reported completed.
Sampled(p) ==
    \E j \in 1..Len(schedule.emitted) :
        /\ schedule.emitted[j].instruction.op = "Sample"
        /\ schedule.emitted[j].of = p
        /\ schedule.completed[j] # None

C22_Step ==
    /\ Emits("ReduceToQuantiles") =>
           /\ QuantilesOf = {}
           /\ \A p \in 1..schedule.num_inputs : Sampled(p)
    /\ Emits("FanoutRange") =>
           /\ Cardinality(QuantilesOf) = 1
           /\ \A q \in QuantilesOf :
                  /\ schedule.completed[q] # None
                  /\ Emitted.inputs[1] = Val(schedule.completed[q])[1]

C22_Broadcast ==
    /\ Cardinality(QuantilesOf) <= 1
    /\ \A j \in FanoutsOf :
           /\ Len(schedule.emitted[j].inputs) = 2
           /\ schedule.emitted[j].inputs[1].kind = "boundaries"
           /\ schedule.emitted[j].inputs[2]
                  = Partition("input", schedule.emitted[j].of, 0)
    /\ \A j, l \in FanoutsOf :
           schedule.emitted[j].inputs[1] = schedule.emitted[l].inputs[1]

\* C22: the ReduceToQuantiles Construction is single and is emitted only
\* once the Sample of every input was reported completed; a FanoutRange
\* Construction is emitted only once that reduce was reported completed;
\* and every FanoutRange Construction has the one boundaries partition as
\* its first input and its own input partition as its second.
C22_SortStages == []C22_Broadcast /\ [][C22_Step]_vars

\* Both inputs of a two-partition sort fanned out against the boundaries.
C22_Witness ==
    /\ schedule.num_inputs = 2
    /\ Cardinality(FanoutsOf) = 2
    /\ \A j \in FanoutsOf :
           schedule.emitted[j].inputs[1] = Partition("boundaries", 0, 0)


====
